---------------------------- MODULE Spec2Model ----------------------------
(***************************************************************************)
(* Block validation, succession and interlink construction (Block),        *)
(* the NetAddress wire record and the KeyPair lock lifecycle.               *)
(*                                                                         *)
(* Hashes and targets are scaled from 256 bits down to HashBits bits; all   *)
(* comparisons and the target-height arithmetic are kept as in the source.  *)
(***************************************************************************)
EXTENDS Integers, Sequences, FiniteSets, TLC

VARIABLES
    prev,        \* the block nextInterlink / isSuccessorOf is evaluated on
    child,       \* header of the candidate child passed to isSuccessorOf
    op,          \* the running Block operation
    pc,          \* position inside the running operation
    i,           \* loop counter of the depth scan
    depth,       \* depth found so far by the depth scan
    nextTarget,  \* argument of nextInterlink
    ret,         \* hashes of the interlink returned by nextInterlink
    result,      \* outcome of isSuccessorOf
    mutated,     \* header field changed after an accepted succession check
    vblock,      \* the block verify() is called on
    vpc,         \* position of verify()
    vresult,     \* value returned by verify()
    vlog,        \* message verify() logged at warn level
    naddr,       \* the NetAddress being serialized
    nglobals,    \* what the free identifiers signalId and ipAddress resolve to
    wire,        \* bytes written by serialize()
    back,        \* NetAddress built by unserialize()
    npc,         \* position of the NetAddress round trip
    kp,          \* the KeyPair
    korig,       \* private key the pair was generated with
    klockedWith, \* key of the latest lock()
    kattempts,   \* failed unlock() calls since the pair was last locked
    klast        \* the latest KeyPair call and whether it failed

blockVars == <<prev, child, op, pc, i, depth, nextTarget, ret, result, mutated>>

verifyVars == <<vblock, vpc, vresult, vlog>>

netVars == <<naddr, nglobals, wire, back, npc>>

keyVars == <<kp, korig, klockedWith, kattempts, klast>>

vars == <<blockVars, verifyVars, netVars, keyVars>>

---------------------------------------------------------------------------
(* Bounds *)

HashBits == 3
MaxLink == 4
MaxHeight == 2
MaxTime == 2
MaxTx == 2
BLOCK_SIZE_MAX == 3
MaxHost == 2
MaxAttempts == 3

---------------------------------------------------------------------------
(* Value domains *)

HashSpace == 2 ^ HashBits

Hashes == 0 .. (HashSpace - 1)

Targets == 1 .. HashSpace

\* What reading a JavaScript array outside its range yields.
Undefined == -1

\* Block.GENESIS.HASH: a hash whose three leading bits are set (0xe5...).
GENESIS_HASH == (HashSpace * 7) \div 8

\* Hashes of earlier blocks that an interlink may hold besides genesis.
AncestorHashes == {1, 2}

RECURSIVE SeqsUpTo(_, _)
SeqsUpTo(S, n) ==
    IF n = 0 THEN {<<>>}
    ELSE LET shorter == SeqsUpTo(S, n - 1)
         IN  shorter \cup {Append(s, x) : s \in {t \in shorter : Len(t) = n - 1}, x \in S}

\* Interlinks of blocks after genesis: genesis hash first, then ancestors.
Interlinks == {<<GENESIS_HASH>> \o s : s \in SeqsUpTo(AncestorHashes, MaxLink - 1)}

\* Block.GENESIS: height 1, difficulty 1 (the easiest target), empty interlink.
GENESIS ==
    [hash |-> GENESIS_HASH, target |-> HashSpace, height |-> 1, timestamp |-> 0,
     interlink |-> <<>>]

---------------------------------------------------------------------------
(* BlockUtils *)

\* BlockUtils.getTargetHeight(target) = ceil(log2(target))
getTargetHeight(target) ==
    CHOOSE k \in 0 .. HashBits :
        /\ 2 ^ k >= target
        /\ (k = 0 \/ 2 ^ (k - 1) < target)

\* Math.pow(2, e) as a fraction n/d: e may be negative.
MathPow2(e) ==
    IF e >= 0 THEN [n |-> 2 ^ e, d |-> 1] ELSE [n |-> 1, d |-> 2 ^ (0 - e)]

\* BlockUtils.isProofOfWork(hash, target): hash read as an integer <= target
isProofOfWork(hash, target) == hash * target.d <= target.n

---------------------------------------------------------------------------
(* BlockInterlink *)

\* this.interlink.hashes[j] with JavaScript's zero-based, unchecked indexing
JSIndex(hashes, j) ==
    IF 0 <= j /\ j < Len(hashes) THEN hashes[j + 1] ELSE Undefined

HasUndefined(hashes) == \E k \in 1 .. Len(hashes) : hashes[k] = Undefined

\* BlockInterlink.hash(): a commitment to the ordered list of hashes
RECURSIVE InterlinkHash(_)
InterlinkHash(hashes) ==
    IF hashes = <<>> THEN 1
    ELSE (3 * InterlinkHash(SubSeq(hashes, 1, Len(hashes) - 1))
          + hashes[Len(hashes)] + 1) % HashSpace

---------------------------------------------------------------------------
(* Block.nextInterlink *)

\* Cap of the depth scan in the model: the scan itself has no upper limit.
MaxScan == HashBits + 2

\* const offset = targetHeight - nextTargetHeight
Offset(block, T) == getTargetHeight(block.target) - getTargetHeight(T)

\* first index of the tail loop: j = depth + offset + 1
TailStart(block, d, T) == d + Offset(block, T) + 1

\* for (let j = depth + offset + 1; j < this.interlink.length; j++) push(hashes[j])
TailOf(block, d, T) ==
    LET start == TailStart(block, d, T)
        n == Len(block.interlink) - start
    IN  IF n <= 0 THEN <<>>
        ELSE [k \in 1 .. n |-> JSIndex(block.interlink, start + k - 1)]

\* the code of nextInterlink after the depth scan
InterlinkAfterScan(block, d, T) ==
    IF d = 0 /\ getTargetHeight(block.target) = getTargetHeight(T)
    THEN block.interlink
    ELSE <<GENESIS_HASH>> \o [k \in 1 .. d |-> block.hash] \o TailOf(block, d, T)

\* condition of the while loop of the depth scan
ScanCondition(block, T, n) ==
    isProofOfWork(block.hash, MathPow2(getTargetHeight(T) - n))

---------------------------------------------------------------------------
(* Block.isSuccessorOf *)

HeightOkAtLeast(c, p) == c.height >= p.height + 1

HeightOk(c, p) == c.height = p.height + 1

TimestampOkStrict(c, p) == ~(c.timestamp <= p.timestamp)

TimestampOk(c, p) == ~(c.timestamp < p.timestamp)

PrevHashOk(c, p) == c.prevHash = p.hash

\* the target handed to prevBlock.nextInterlink
SuccessorTarget(c, p) == c.target

InterlinkHashResult(c, hashes) ==
    IF HasUndefined(hashes) THEN "throw"
    ELSE IF c.interlinkHash = InterlinkHash(hashes) THEN "true" ELSE "false"

NoChild ==
    [height |-> 0, timestamp |-> 0, prevHash |-> 0, interlinkHash |-> 0, target |-> 1]

Children(p) ==
    [height : {p.height, p.height + 1, p.height + 2},
     timestamp : 0 .. MaxTime,
     prevHash : {p.hash, (p.hash + 1) % HashSpace},
     interlinkHash : Hashes,
     target : {1, HashSpace \div 2, HashSpace, p.target}]

\* isSuccessorOf up to the call of prevBlock.nextInterlink
StartIsSuccessorOf(c) ==
    /\ child' = c
    /\ op' = "isSuccessorOf"
    /\ ret' = <<>>
    /\ IF ~HeightOk(c, prev) \/ ~TimestampOk(c, prev) \/ ~PrevHashOk(c, prev)
       THEN /\ result' = "false"
            /\ pc' = "done"
            /\ UNCHANGED <<i, depth, nextTarget>>
       ELSE /\ nextTarget' = SuccessorTarget(c, prev)
            /\ i' = 1
            /\ depth' = 0
            /\ pc' = "scan"
            /\ result' = "none"

CallIsSuccessorOf ==
    /\ pc = "idle"
    /\ \E c \in Children(prev) : StartIsSuccessorOf(c)
    /\ UNCHANGED <<prev, mutated>>
    /\ UNCHANGED <<verifyVars, netVars, keyVars>>

CallNextInterlink ==
    /\ pc = "idle"
    /\ \E T \in Targets : nextTarget' = T
    /\ op' = "nextInterlink"
    /\ i' = 1
    /\ depth' = 0
    /\ pc' = "scan"
    /\ UNCHANGED <<prev, child, ret, result, mutated>>
    /\ UNCHANGED <<verifyVars, netVars, keyVars>>

\* one iteration of: while (isProofOfWork(hash, 2^(nextTargetHeight - i))) { depth = i; i++; }
ScanStep ==
    /\ pc = "scan"
    /\ i <= MaxScan
    /\ ScanCondition(prev, nextTarget, i)
    /\ depth' = i
    /\ i' = i + 1
    /\ UNCHANGED <<prev, child, op, pc, nextTarget, ret, result, mutated>>
    /\ UNCHANGED <<verifyVars, netVars, keyVars>>

\* the loop condition fails: the rest of nextInterlink, and of its caller
ScanExit ==
    /\ pc = "scan"
    /\ ~ScanCondition(prev, nextTarget, i)
    /\ ret' = InterlinkAfterScan(prev, depth, nextTarget)
    /\ result' = IF op = "isSuccessorOf" THEN InterlinkHashResult(child, ret')
                 ELSE result
    /\ pc' = "done"
    /\ UNCHANGED <<prev, child, op, i, depth, nextTarget, mutated>>
    /\ UNCHANGED <<verifyVars, netVars, keyVars>>

\* a header field of an accepted child is changed and the check is run again
Mutations(c) ==
    {[f |-> "height", c |-> [c EXCEPT !.height = v]] :
        v \in (1 .. MaxHeight + 2) \ {c.height}}
    \cup {[f |-> "timestamp", c |-> [c EXCEPT !.timestamp = v]] :
        v \in {t \in 0 .. MaxTime : t < c.timestamp}}
    \cup {[f |-> "prevHash", c |-> [c EXCEPT !.prevHash = v]] :
        v \in Hashes \ {c.prevHash}}
    \cup {[f |-> "interlinkHash", c |-> [c EXCEPT !.interlinkHash = v]] :
        v \in Hashes \ {c.interlinkHash}}

Mutate ==
    /\ pc = "done"
    /\ op = "isSuccessorOf"
    /\ result = "true"
    /\ mutated = "none"
    /\ \E m \in Mutations(child) :
        /\ mutated' = m.f
        /\ StartIsSuccessorOf(m.c)
    /\ UNCHANGED prev
    /\ UNCHANGED <<verifyVars, netVars, keyVars>>

---------------------------------------------------------------------------
(* Block.verify *)

PubKeys == {1, 2}

\* tx.getSenderAddr(): the address derived from the sender's public key
AddressOf(pubKey) == (5 * pubKey + 1) % HashSpace

Addresses == {AddressOf(k) : k \in PubKeys} \cup {0}

Transactions == [senderPubKey : PubKeys, recipientAddr : Addresses, sigOk : BOOLEAN]

\* BlockBody.hash(): a commitment to the ordered transactions
RECURSIVE BodyHash(_)
BodyHash(txs) ==
    IF txs = <<>> THEN 2
    ELSE LET tx == txs[Len(txs)]
         IN  (5 * BodyHash(SubSeq(txs, 1, Len(txs) - 1)) + 3 * tx.senderPubKey
              + tx.recipientAddr + (IF tx.sigOk THEN 1 ELSE 0)) % HashSpace

\* header + interlink + body, in units of one hash or one transaction
SerializedSize(b) == 1 + Len(b.interlink) + Len(b.txs)

SizeExceededOrEqual(b) == SerializedSize(b) >= BLOCK_SIZE_MAX

SizeExceeded(b) == SerializedSize(b) > BLOCK_SIZE_MAX

\* the first loop over the transactions with the recipient check first
RECURSIVE TxLoopRecipientFirst(_, _, _)
TxLoopRecipientFirst(txs, k, senderPubKeys) ==
    IF k > Len(txs) THEN "ok"
    ELSE IF txs[k].recipientAddr = AddressOf(txs[k].senderPubKey)
         THEN "Invalid block - sender and recipient coincide"
    ELSE IF txs[k].senderPubKey \in senderPubKeys
         THEN "Invalid block - more than one transaction per sender"
    ELSE TxLoopRecipientFirst(txs, k + 1, senderPubKeys \cup {txs[k].senderPubKey})

\* the first loop over the transactions, from transaction k on
RECURSIVE TxLoop(_, _, _)
TxLoop(txs, k, senderPubKeys) ==
    IF k > Len(txs) THEN "ok"
    ELSE IF txs[k].senderPubKey \in senderPubKeys
         THEN "Invalid block - more than one transaction per sender"
    ELSE IF txs[k].recipientAddr = AddressOf(txs[k].senderPubKey)
         THEN "Invalid block - sender and recipient coincide"
    ELSE TxLoop(txs, k + 1, senderPubKeys \cup {txs[k].senderPubKey})

\* header.verifyProofOfWork(): the header hash meets the header's target
verifyProofOfWork(b) == isProofOfWork(b.hash, [n |-> b.target, d |-> 1])

\* the second loop over the transactions
SignaturesOk(txs) == \A k \in 1 .. Len(txs) : txs[k].sigOk

\* the message of the first failing check of verify(), "ok" when none fails
VerifyLog(b) ==
    IF SizeExceeded(b) THEN "Invalid block - max block size exceeded"
    ELSE IF TxLoop(b.txs, 1, {}) # "ok" THEN TxLoop(b.txs, 1, {})
    ELSE IF ~verifyProofOfWork(b) THEN "Invalid block - PoW verification failed"
    ELSE IF b.bodyHash # BodyHash(b.txs) THEN "Invalid block - body hash mismatch"
    ELSE IF b.interlinkHash # InterlinkHash(b.interlink)
         THEN "Invalid block - interlink hash mismatch"
    ELSE IF ~SignaturesOk(b.txs) THEN "Invalid block - invalid transaction signature"
    ELSE "ok"

Verify ==
    /\ vpc = "idle"
    /\ vlog' = VerifyLog(vblock)
    /\ vresult' = (VerifyLog(vblock) = "ok")
    /\ vpc' = "done"
    /\ UNCHANGED vblock
    /\ UNCHANGED <<blockVars, netVars, keyVars>>

---------------------------------------------------------------------------
(* SerialBuffer *)

\* writeUint8/16/32/64: n as k big-endian bytes
RECURSIVE WriteUint(_, _)
WriteUint(n, k) ==
    IF k = 0 THEN <<>> ELSE Append(WriteUint(n \div 256, k - 1), n % 256)

\* readUint8/16/32/64: the big-endian value of the bytes
RECURSIVE ReadUint(_)
ReadUint(bytes) ==
    IF bytes = <<>> THEN 0
    ELSE 256 * ReadUint(SubSeq(bytes, 1, Len(bytes) - 1)) + bytes[Len(bytes)]

\* writeVarLenString: one length byte, then the bytes of the string
WriteVarLenString(s) == <<Len(s) % 256>> \o s

---------------------------------------------------------------------------
(* NetAddress *)

HostChars == {97, 98}

NetAddresses ==
    [services : {0, 1}, timestamp : {0, 66000}, host : SeqsUpTo(HostChars, MaxHost),
     port : {0, 8443}, signalId : {0, 42}]

\* a free identifier is unbound, or bound in the global scope to some value
Unbound == [bound |-> FALSE, value |-> <<>>]

Bound(v) == [bound |-> TRUE, value |-> v]

GlobalScopes ==
    [signalId : {Unbound, Bound(7), Bound(42)}, ipAddress : {Unbound, Bound(<<97>>)}]

\* get serializedSize()
NetSerializedSize(r) == 4 + 8 + 1 + Len(r.host) + 2 + 4

\* serialize() writes the identifier signalId, not this._signalId
NetSerialize ==
    /\ npc = "idle"
    /\ IF nglobals.signalId.bound
       THEN /\ wire' = WriteUint(naddr.services, 4) \o WriteUint(naddr.timestamp, 8)
                       \o WriteVarLenString(naddr.host) \o WriteUint(naddr.port, 2)
                       \o WriteUint(nglobals.signalId.value, 4)
            /\ npc' = "serialized"
       ELSE /\ wire' = WriteUint(naddr.services, 4) \o WriteUint(naddr.timestamp, 8)
                       \o WriteVarLenString(naddr.host) \o WriteUint(naddr.port, 2)
            /\ npc' = "serialize threw"
    /\ UNCHANGED <<naddr, nglobals, back>>
    /\ UNCHANGED <<blockVars, verifyVars, keyVars>>

\* unserialize() passes the identifier ipAddress, not host, to the constructor
NetUnserialize ==
    /\ npc = "serialized"
    /\ LET services == ReadUint(SubSeq(wire, 1, 4))
           timestamp == ReadUint(SubSeq(wire, 5, 12))
           n == wire[13]
           host == SubSeq(wire, 14, 13 + n)
           port == ReadUint(SubSeq(wire, 14 + n, 15 + n))
           signalId == ReadUint(SubSeq(wire, 16 + n, 19 + n))
       IN  IF nglobals.ipAddress.bound
           THEN /\ back' = [services |-> services, timestamp |-> timestamp,
                            host |-> nglobals.ipAddress.value, port |-> port,
                            signalId |-> signalId]
                /\ npc' = "unserialized"
           ELSE /\ back' = back
                /\ npc' = "unserialize threw"
    /\ UNCHANGED <<naddr, nglobals, wire>>
    /\ UNCHANGED <<blockVars, verifyVars, keyVars>>

---------------------------------------------------------------------------
(* KeyPair *)

LockKeys == {1, 2, 3}

PrivateKeys == {1, 2, 3, 4}

KeyModulus == HashSpace - 1

\* PublicKey.derive
PublicOf(privateKey) == (2 * privateKey + 1) % KeyModulus

Encrypt(privateKey, key) == (privateKey + key) % KeyModulus

Decrypt(encrypted, key) == (encrypted + KeyModulus - key) % KeyModulus

\* KeyPair.generate(): unlocked, nothing encrypted yet
Generated(privateKey) ==
    [locked |-> FALSE, privateKey |-> privateKey, publicKey |-> PublicOf(privateKey),
     encrypted |-> 0, hasEncrypted |-> FALSE]

\* get privateKey(): fails while the pair is locked
GetPrivateKey(pair) ==
    IF pair.locked THEN [threw |-> TRUE, value |-> 0]
    ELSE [threw |-> FALSE, value |-> pair.privateKey]

KeyMatchesAlways(pair, key) == TRUE

\* unlock() accepts the key whose decryption yields the pair's own private key
KeyMatches(pair, key) == PublicOf(Decrypt(pair.encrypted, key)) = pair.publicKey

Lock ==
    /\ ~kp.locked
    /\ \E key \in LockKeys :
        /\ kp' = [kp EXCEPT !.locked = TRUE, !.privateKey = 0,
                            !.encrypted = Encrypt(kp.privateKey, key),
                            !.hasEncrypted = TRUE]
        /\ klockedWith' = key
        /\ klast' = [op |-> "lock", key |-> key, failed |-> FALSE]
    /\ kattempts' = 0
    /\ UNCHANGED korig
    /\ UNCHANGED <<blockVars, verifyVars, netVars>>

Unlock ==
    /\ kp.locked
    /\ \E key \in LockKeys :
        IF KeyMatches(kp, key)
        THEN /\ kp' = [kp EXCEPT !.locked = FALSE,
                                 !.privateKey = Decrypt(kp.encrypted, key)]
             /\ klast' = [op |-> "unlock", key |-> key, failed |-> FALSE]
             /\ UNCHANGED kattempts
        ELSE /\ kattempts < MaxAttempts
             /\ kattempts' = kattempts + 1
             /\ klast' = [op |-> "unlock", key |-> key, failed |-> TRUE]
             /\ UNCHANGED kp
    /\ UNCHANGED <<korig, klockedWith>>
    /\ UNCHANGED <<blockVars, verifyVars, netVars>>

Relock ==
    /\ ~kp.locked
    /\ kp.hasEncrypted
    /\ kp' = [kp EXCEPT !.locked = TRUE, !.privateKey = 0]
    /\ klast' = [op |-> "relock", key |-> klockedWith, failed |-> FALSE]
    /\ kattempts' = 0
    /\ UNCHANGED <<korig, klockedWith>>
    /\ UNCHANGED <<blockVars, verifyVars, netVars>>

---------------------------------------------------------------------------
(* Specifications *)

NoBlock ==
    [hash |-> 0, target |-> 1, bodyHash |-> 0, interlinkHash |-> 0,
     interlink |-> <<>>, txs |-> <<>>]

InitVerifyIdle ==
    /\ vblock = NoBlock
    /\ vpc = "off"
    /\ vresult = FALSE
    /\ vlog = "none"

InitNetIdle ==
    /\ naddr = [services |-> 0, timestamp |-> 0, host |-> <<>>, port |-> 0, signalId |-> 0]
    /\ nglobals = [signalId |-> Unbound, ipAddress |-> Unbound]
    /\ wire = <<>>
    /\ back = naddr
    /\ npc = "off"

InitKeyIdle ==
    /\ korig = 1
    /\ kp = Generated(1)
    /\ klockedWith = 0
    /\ kattempts = 0
    /\ klast = [op |-> "generate", key |-> 0, failed |-> FALSE]

InitCommon ==
    /\ child = NoChild
    /\ op = "none"
    /\ pc = "idle"
    /\ i = 1
    /\ depth = 0
    /\ nextTarget = 1
    /\ ret = <<>>
    /\ result = "none"
    /\ mutated = "none"

InitInterlink ==
    /\ prev \in {GENESIS} \cup
           [hash : Hashes, target : Targets, height : {2}, timestamp : {0},
            interlink : Interlinks]
    /\ InitCommon
    /\ InitVerifyIdle
    /\ InitNetIdle
    /\ InitKeyIdle

NextInterlink == CallNextInterlink \/ ScanStep \/ ScanExit

SpecInterlink == InitInterlink /\ [][NextInterlink]_vars

InitSuccessor ==
    /\ prev \in {GENESIS} \cup
           [hash : Hashes, target : {2, HashSpace}, height : 1 .. MaxHeight,
            timestamp : 0 .. MaxTime,
            interlink : {<<GENESIS_HASH>>, <<GENESIS_HASH, 1, 2>>}]
    /\ InitCommon
    /\ InitVerifyIdle
    /\ InitNetIdle
    /\ InitKeyIdle

NextSuccessor == CallIsSuccessorOf \/ ScanStep \/ ScanExit \/ Mutate

SpecSuccessor == InitSuccessor /\ [][NextSuccessor]_vars

\* blocks handed to verify(): any content, with commitments that match or not
VerifyBlocks ==
    {[hash |-> h, target |-> HashSpace \div 2, bodyHash |-> (BodyHash(txs) + db) % HashSpace,
      interlinkHash |-> (InterlinkHash(il) + di) % HashSpace, interlink |-> il, txs |-> txs] :
        h \in {1, HashSpace - 1}, db \in {0, 1}, di \in {0, 1},
        il \in {<<>>, <<GENESIS_HASH>>, <<GENESIS_HASH, 1>>},
        txs \in SeqsUpTo(Transactions, MaxTx)}

InitVerify ==
    /\ vblock \in VerifyBlocks
    /\ vpc = "idle"
    /\ vresult = FALSE
    /\ vlog = "none"
    /\ prev = GENESIS
    /\ InitCommon
    /\ InitNetIdle
    /\ InitKeyIdle

NextVerify == Verify

SpecVerify == InitVerify /\ [][NextVerify]_vars

InitNet ==
    /\ naddr \in NetAddresses
    /\ nglobals \in GlobalScopes
    /\ wire = <<>>
    /\ back = [services |-> 0, timestamp |-> 0, host |-> <<>>, port |-> 0, signalId |-> 0]
    /\ npc = "idle"
    /\ prev = GENESIS
    /\ InitCommon
    /\ InitVerifyIdle
    /\ InitKeyIdle

NextNet == NetSerialize \/ NetUnserialize

SpecNet == InitNet /\ [][NextNet]_vars

InitKeyPair ==
    /\ korig \in PrivateKeys
    /\ kp = Generated(korig)
    /\ klockedWith = 0
    /\ kattempts = 0
    /\ klast = [op |-> "generate", key |-> 0, failed |-> FALSE]
    /\ prev = GENESIS
    /\ InitCommon
    /\ InitVerifyIdle
    /\ InitNetIdle

NextKeyPair == Lock \/ Unlock \/ Relock

SpecKeyPair == InitKeyPair /\ [][NextKeyPair]_vars

---------------------------------------------------------------------------
(* Claims about Block.nextInterlink *)

\* "h meets 2^e", stated on integers: below 2^0 only the zero hash does
Meets(h, e) == IF e >= 0 THEN h <= 2 ^ e ELSE h = 0

\* the largest d such that h meets 2^(hn-1), ..., 2^(hn-d), looked for up to MaxScan
ClaimedDepth(h, hn) ==
    LET ok == {d \in 0 .. MaxScan : \A k \in 1 .. d : Meets(h, hn - k)}
    IN  CHOOSE d \in ok : \A e \in ok : e <= d

\* the entries of hashes at the indices from .. Len(hashes)-1 (zero-based)
EntriesFrom(hashes, from) ==
    LET first == IF from < 0 THEN 0 ELSE from
    IN  IF first >= Len(hashes) THEN <<>> ELSE SubSeq(hashes, first + 1, Len(hashes))

ClaimedInterlink(b, T) ==
    LET hn == getTargetHeight(T)
        hcur == getTargetHeight(b.target)
        d == ClaimedDepth(b.hash, hn)
    IN  IF d = 0 /\ hcur = hn THEN b.interlink
        ELSE <<GENESIS_HASH>> \o [k \in 1 .. d |-> b.hash]
             \o EntriesFrom(b.interlink, d + (hcur - hn) + 1)

NextInterlinkDone == pc = "done" /\ op = "nextInterlink"

\* C3: nextInterlink(nextTarget) is the current interlink when d = 0 and the
\* target height is unchanged, and otherwise GENESIS_HASH, then d copies of
\* the block hash, then the current interlink's entries at the indices
\* d+offset+1 .. L-1 in order.
C3_NextInterlinkShape ==
    NextInterlinkDone => ret = ClaimedInterlink(prev, nextTarget)

\* C4: the interlink returned by nextInterlink has length >= 1 and holds
\* GENESIS_HASH at index 0, on the fast path as well as on the built path.
C4_GenesisFirst ==
    NextInterlinkDone => (Len(ret) >= 1 /\ ret[1] = GENESIS_HASH)

\* C9: every entry of the returned interlink is GENESIS_HASH, the block's hash
\* or an entry of the current interlink; the tail loop reads no index outside
\* 0 .. L-1.
C9_TailInRange ==
    NextInterlinkDone =>
        \A k \in 1 .. Len(ret) :
            ret[k] \in {GENESIS_HASH, prev.hash}
                       \cup {prev.interlink[n] : n \in 1 .. Len(prev.interlink)}

\* C10: the depth scan ends with 0 <= depth <= getTargetHeight(nextTarget);
\* since depth only grows during the scan, it never exceeds that height.
C10_DepthBounded ==
    (pc \in {"scan", "done"} /\ op = "nextInterlink") =>
        (0 <= depth /\ depth <= getTargetHeight(nextTarget))

---------------------------------------------------------------------------
(* Claims about Block.isSuccessorOf *)

IsSuccessorOfDone == pc = "done" /\ op = "isSuccessorOf"

\* prev.nextInterlink(T) as a value, for a scan that ends
NextInterlinkOf(p, T) ==
    InterlinkAfterScan(p, ClaimedDepth(p.hash, getTargetHeight(T)), T)

---------------------------------------------------------------------------
(* Claims about Block.verify *)

NoSharedSender(txs) ==
    \A a \in 1 .. Len(txs) : \A b \in 1 .. Len(txs) :
        a # b => txs[a].senderPubKey # txs[b].senderPubKey

NoSelfSend(txs) ==
    \A k \in 1 .. Len(txs) : txs[k].recipientAddr # AddressOf(txs[k].senderPubKey)

\* C2: verify() returns true iff the size limit, sender uniqueness, recipient
\* distinct from sender, proof of work, body hash, interlink hash and all
\* signatures hold, and returns false (a boolean, no exception) otherwise.
C2_VerifyIff ==
    vpc = "done" =>
        /\ vresult \in BOOLEAN
        /\ vresult <=>
            /\ 1 + Len(vblock.interlink) + Len(vblock.txs) <= BLOCK_SIZE_MAX
            /\ NoSharedSender(vblock.txs)
            /\ NoSelfSend(vblock.txs)
            /\ vblock.hash <= vblock.target
            /\ vblock.bodyHash = BodyHash(vblock.txs)
            /\ vblock.interlinkHash = InterlinkHash(vblock.interlink)
            /\ \A k \in 1 .. Len(vblock.txs) : vblock.txs[k].sigOk

C2_Witness ==
    /\ vpc = "done"
    /\ vresult
    /\ Len(vblock.txs) = MaxTx
    /\ 1 + Len(vblock.interlink) + Len(vblock.txs) = BLOCK_SIZE_MAX

\* the checks of verify() a block fails, by their numbers 1..7
FailedChecks(b) ==
    {n \in 1 .. 7 :
        \/ n = 1 /\ 1 + Len(b.interlink) + Len(b.txs) > BLOCK_SIZE_MAX
        \/ n = 2 /\ ~NoSharedSender(b.txs)
        \/ n = 3 /\ ~NoSelfSend(b.txs)
        \/ n = 4 /\ ~(b.hash <= b.target)
        \/ n = 5 /\ b.bodyHash # BodyHash(b.txs)
        \/ n = 6 /\ b.interlinkHash # InterlinkHash(b.interlink)
        \/ n = 7 /\ \E k \in 1 .. Len(b.txs) : ~b.txs[k].sigOk}

LowestOf(S) == CHOOSE n \in S : \A m \in S : n <= m

\* the check a logged message reports
CheckOfLog(msg) ==
    CASE msg = "Invalid block - max block size exceeded" -> 1
      [] msg = "Invalid block - more than one transaction per sender" -> 2
      [] msg = "Invalid block - sender and recipient coincide" -> 3
      [] msg = "Invalid block - PoW verification failed" -> 4
      [] msg = "Invalid block - body hash mismatch" -> 5
      [] msg = "Invalid block - interlink hash mismatch" -> 6
      [] msg = "Invalid block - invalid transaction signature" -> 7
      [] OTHER -> 0

\* C5 as stated: a failing block is reported with the lowest-numbered check it
\* fails, checks 2 and 3 each taken over all transactions.
C5_LowestCheckReported ==
    (vpc = "done" /\ ~vresult) => CheckOfLog(vlog) = LowestOf(FailedChecks(vblock))

\* transaction k repeats the sender of an earlier transaction
RepeatsSender(txs, k) == \E j \in 1 .. (k - 1) : txs[j].senderPubKey = txs[k].senderPubKey

SendsToSelf(txs, k) == txs[k].recipientAddr = AddressOf(txs[k].senderPubKey)

\* the first transaction, in body order, that fails check 2 or check 3
FirstBadTx(txs) ==
    LowestOf({k \in 1 .. Len(txs) : RepeatsSender(txs, k) \/ SendsToSelf(txs, k)})

\* C5 amended: check 1 comes first and checks 4..7 follow in order, while
\* checks 2 and 3 are run together, transaction by transaction: the block is
\* reported with check 2 or 3 as failed by the first transaction failing either
\* (check 2 before check 3 on that transaction).
C5_FirstFailureReported ==
    (vpc = "done" /\ ~vresult) =>
        LET failed == FailedChecks(vblock)
        IN  CheckOfLog(vlog) =
                IF 1 \in failed THEN 1
                ELSE IF failed \cap {2, 3} # {}
                THEN (IF RepeatsSender(vblock.txs, FirstBadTx(vblock.txs)) THEN 2 ELSE 3)
                ELSE LowestOf(failed)

\* a block that fails check 3 on its first transaction and check 2 on a later one
C5_Witness ==
    /\ vpc = "done"
    /\ ~vresult
    /\ CheckOfLog(vlog) = 3
    /\ ~NoSharedSender(vblock.txs)

---------------------------------------------------------------------------
(* Claims about NetAddress *)

\* the bytes the wire format prescribes for r
WireFormat(r) ==
    WriteUint(r.services, 4) \o WriteUint(r.timestamp, 8) \o <<Len(r.host)>> \o r.host
    \o WriteUint(r.port, 2) \o WriteUint(r.signalId, 4)

\* C7: serialize() writes services, timestamp, host, port and the record's own
\* signalId, 19 + len(host) bytes in all, and unserialize() of those bytes
\* returns a record with the same five fields.
C7_RoundTrip ==
    /\ npc \notin {"serialize threw", "unserialize threw"}
    /\ npc \in {"serialized", "unserialized"} =>
        /\ wire = WireFormat(naddr)
        /\ Len(wire) = NetSerializedSize(naddr)
        /\ Len(wire) = 19 + Len(naddr.host)
    /\ npc = "unserialized" => back = naddr

---------------------------------------------------------------------------
(* Claims about KeyPair *)

\* C8: while the pair is locked with key k, every unlock with another key
\* fails and leaves the pair locked with privateKey inaccessible, and an
\* unlock with k succeeds, unlocks the pair and yields the private key the
\* pair had before it was locked.
C8_WrongKeyKeepsLocked ==
    klast.op = "unlock" =>
        IF klast.key # klockedWith
        THEN klast.failed /\ kp.locked /\ GetPrivateKey(kp).threw
        ELSE /\ ~klast.failed
             /\ ~kp.locked
             /\ GetPrivateKey(kp) = [threw |-> FALSE, value |-> korig]

C8_Witness ==
    /\ klast = [op |-> "unlock", key |-> klockedWith, failed |-> FALSE]
    /\ kattempts >= 2
    /\ ~kp.locked
    /\ kp.privateKey = korig

===========================================================================
